---- MODULE Spec2Model ----
(***************************************************************************)
(* Model of the shellsense tool-calling orchestration loop:                *)
(*   shellsense/tools/tool_manager.py   ToolManager                        *)
(*   shellsense/config/settings.py      Config                             *)
(*   shellsense/tools/*/*.py            the registered tools' schemas      *)
(*   shellsense/ai/providers/*.py       the three provider adapters        *)
(*   shellsense/ai/providers/friendly_ai_response.py   the summarizer      *)
(*   tools/tool_manager.py              the legacy ToolManager             *)
(*   shellsense/ai/providers/gemini_provider.py   parts, schema conversion *)
(*   shellsense/utils/loading.py, futuristic_loading.py   the spinner      *)
(*                                                                         *)
(* Texts are sequences of string tokens; the token " " is whitespace.      *)
(* A tool call is [name, arguments]; arguments is [null, keys] where null  *)
(* stands for a JSON null / missing container and keys is the set of       *)
(* argument names present.                                                 *)
(***************************************************************************)
EXTENDS Integers, Sequences, FiniteSets, TLC

\* ------------------------------------------------------------------ bounds
\* longest tool_calls list an upstream reply carries
MaxCalls == 2

Range(s) == {s[i] : i \in DOMAIN s}

\* ---------------------------------------------------------- input universe
Providers == {"cloudflare", "openai", "gemini"}

\* provider arguments ToolManager can be constructed with: the three known
\* names and one that is none of them
ProviderNames == Providers \cup {"mistral"}

\* the credential variables os.environ may or may not hold
EnvVars ==
    {"CLOUDFLARE_ACCOUNT_ID", "CLOUDFLARE_AUTH_TOKEN", "OPENAI_API_KEY",
     "GEMINI_API_KEY"}

Environs == SUBSET EnvVars

\* queries handed to process_query ("" is the empty query)
Queries == {"", "What is the current price of AAPL?"}

\* the nine registry entries, in the order load_tools inserts them
ToolOrder ==
    <<"executeShellCommands", "getGithubUserInfo", "getCurrentStockPrice",
      "performWebSearch", "scrapeVisibleText", "getProductHuntTrending",
      "takeScreenshotOfWebPage", "translateText", "generateCode">>

\* the registered tools an upstream model asks for here: one whose schema has
\* no top-level "required" (GitHubTool) and one with two required arguments
\* (StockTool)
CalledTools == {"getGithubUserInfo", "getCurrentStockPrice"}

\* names an upstream model can put in a tool call: registered names, a name
\* nobody registered and the empty / missing name
UpstreamNames == CalledTools \cup {"bogusTool", ""}

NullArgs == [null |-> TRUE, keys |-> {}]

Args(ks) == [null |-> FALSE, keys |-> ks]

UpstreamArgs == {NullArgs, Args({}), Args({"symbol"}), Args({"symbol", "action"})}

\* the arguments of a call that names no registered tool are never looked
\* at by name, only for being there or not
UpstreamCalls ==
    [name : CalledTools, arguments : UpstreamArgs]
    \cup [name : UpstreamNames \ CalledTools,
          arguments : {NullArgs, Args({"symbol", "action"})}]

\* free text an upstream reply carries
UpstreamTexts == {<<>>, <<"Hi there!">>}

SeqsUpTo(S, n) == UNION {[1..k -> S] : k \in 0..n}

Upstreams == [text : UpstreamTexts, calls : SeqsUpTo(UpstreamCalls, MaxCalls)]

\* what a tool's invoke can do: return a dict, return a plain string, raise
InvokeOutcomes == {"dict", "str", "raise"}

\* what CloudflareProvider.chat can hand back to the summarizer: a string
\* (kind "str"), a dict {"result": {"response": text}} ("dict_response"), a
\* dict without a "result" key ("dict_other"), a dict {"result": text}
\* ("dict_result_str"), or a non-empty value that is neither a dict nor a
\* string, such as a list or a number ("other")
ChatReplies ==
    { [kind |-> "str", text |-> <<"AAPL trades at 190.">>],
      [kind |-> "str", text |-> <<>>],
      [kind |-> "str", text |-> <<" ">>],
      [kind |-> "dict_response", text |-> <<"AAPL trades at 190.">>],
      [kind |-> "dict_other", text |-> <<>>],
      [kind |-> "dict_result_str", text |-> <<"AAPL trades at 190.">>],
      [kind |-> "other", text |-> <<>>] }

\* ------------------------------------------------------------ text helpers
RECURSIVE LStrip(_)
LStrip(t) == IF t # <<>> /\ Head(t) = " " THEN LStrip(Tail(t)) ELSE t

RECURSIVE RStrip(_)
RStrip(t) ==
    IF t # <<>> /\ t[Len(t)] = " " THEN RStrip(SubSeq(t, 1, Len(t) - 1)) ELSE t

\* str.strip()
Strip(t) == RStrip(LStrip(t))

\* mutant of Join: the parts joined last to first
RECURSIVE Join_Reversed(_)
Join_Reversed(parts) ==
    IF parts = <<>> THEN <<>>
    ELSE IF Len(parts) = 1 THEN parts[1]
    ELSE Join_Reversed(Tail(parts)) \o <<"\n\n">> \o parts[1]

\* "\n\n".join(parts)
RECURSIVE Join(_)
Join(parts) ==
    IF parts = <<>> THEN <<>>
    ELSE IF Len(parts) = 1 THEN parts[1]
    ELSE parts[1] \o <<"\n\n">> \o Join(Tail(parts))

RECURSIVE Filter(_, _)
Filter(s, keep) ==
    IF s = <<>> THEN <<>>
    ELSE (IF keep[Head(s)] THEN <<Head(s)>> ELSE <<>>) \o Filter(Tail(s), keep)

\* ------------------------------------------------------------ configuration
\* the credential attributes of Config; a configuration (cfg) is the set of those
\* that hold a non-empty value
ConfigAttrs == {"ACCOUNT_ID", "API_TOKEN", "OPENAI_API_KEY", "GEMINI_API_KEY"}

\* the environment variable update_from_dict reads an attribute from
EnvVarOf(attr) ==
    CASE attr = "ACCOUNT_ID" -> "CLOUDFLARE_ACCOUNT_ID"
      [] attr = "API_TOKEN" -> "CLOUDFLARE_AUTH_TOKEN"
      [] OTHER -> attr

\* Config.update_from_dict(os.environ)
update_from_dict(environ) == {attr \in ConfigAttrs : EnvVarOf(attr) \in environ}

\* mutant of validate: the Cloudflare token and the OpenAI key are not checked
validate_Lenient(cfg, p) ==
    IF p = "cloudflare"
    THEN IF "ACCOUNT_ID" \notin cfg
         THEN <<"CLOUDFLARE_ACCOUNT_ID is required for Cloudflare provider">>
         ELSE <<>>
    ELSE IF p = "openai" THEN <<>>
    ELSE IF p = "gemini"
    THEN IF "GEMINI_API_KEY" \notin cfg
         THEN <<"GEMINI_API_KEY is required for Gemini provider">>
         ELSE <<>>
    ELSE <<"Invalid provider: ", p>>

\* Config.validate(provider): the message of the ValueError it raises, <<>>
\* when it returns
validate(cfg, p) ==
    IF p = "cloudflare"
    THEN IF "ACCOUNT_ID" \notin cfg
         THEN <<"CLOUDFLARE_ACCOUNT_ID is required for Cloudflare provider">>
         ELSE IF "API_TOKEN" \notin cfg
         THEN <<"CLOUDFLARE_AUTH_TOKEN is required for Cloudflare provider">>
         ELSE <<>>
    ELSE IF p = "openai"
    THEN IF "OPENAI_API_KEY" \notin cfg
         THEN <<"OPENAI_API_KEY is required for OpenAI provider">>
         ELSE <<>>
    ELSE IF p = "gemini"
    THEN IF "GEMINI_API_KEY" \notin cfg
         THEN <<"GEMINI_API_KEY is required for Gemini provider">>
         ELSE <<>>
    ELSE <<"Invalid provider: ", p>>

\* ToolManager._initialize_provider: the name is looked up, then the
\* provider's constructor validates its own credential
initialize_provider(cfg, p) ==
    IF p \notin Providers
    THEN <<"Invalid provider: ", p, ". Available providers: ",
           "['cloudflare', 'openai', 'gemini']">>
    ELSE validate(cfg, p)

\* the first error among a sequence of steps, <<>> when none fails
RECURSIVE FirstError(_)
FirstError(errors) ==
    IF errors = <<>> THEN <<>>
    ELSE IF Head(errors) # <<>> THEN Head(errors)
    ELSE FirstError(Tail(errors))

\* mutant of ToolManagerInitError: only the selected provider is validated
\* and built; CoderTool and FriendlyAiResponse need no Cloudflare credentials
ToolManagerInitError_ProviderOnly(cfg, p) ==
    FirstError(<<validate(cfg, p), initialize_provider(cfg, p)>>)

\* the steps of ToolManager.__init__ that can raise, in order: validate,
\* _initialize_provider, load_tools (CoderTool builds a CloudflareProvider)
\* and FriendlyAiResponse() (validates for Cloudflare, builds a
\* CloudflareProvider)
ToolManagerInitError(cfg, p) ==
    FirstError(<<validate(cfg, p), initialize_provider(cfg, p),
                 validate(cfg, "cloudflare"), validate(cfg, "cloudflare")>>)

\* ------------------------------------------------------------ tool registry
\* a tool's get_schema(): the keys of "properties" and the top-level
\* "required" list, hasRequired saying whether the dict has that key at all
Schema(properties, required) ==
    [type |-> "object", properties |-> properties,
     hasRequired |-> TRUE, required |-> required]

\* CommandExecutionTool.get_schema
CommandExecutionSchema == Schema({"commands", "confirm_harmful"}, <<"commands">>)

\* GitHubTool.get_schema: properties username/query, "anyOf" instead of a
\* top-level "required"
GitHubSchema ==
    [type |-> "object", properties |-> {"username", "query"},
     hasRequired |-> FALSE, required |-> <<>>]

\* mutant of StockSchema: a required name that is no property
StockSchema_Typo == Schema({"symbol", "action"}, <<"ticker", "action">>)

\* StockTool.get_schema
StockSchema == Schema({"symbol", "action"}, <<"symbol", "action">>)

\* WebSearchTool.get_schema
WebSearchSchema == Schema({"query", "engine", "num_results"}, <<"query">>)

\* WebCrawlerTool.get_schema
CrawlerSchema == Schema({"url", "extract_type", "max_depth"}, <<"url">>)

\* ProductHuntTool.get_schema
ProductHuntSchema ==
    Schema({"action", "query", "date", "collection_id", "limit"}, <<"action">>)

\* ScreenshotTool.get_schema
ScreenshotSchema ==
    Schema({"url", "output_path", "wait_time", "full_page"},
           <<"url", "output_path">>)

\* TranslatorTool.get_schema
TranslatorSchema ==
    Schema({"text", "target_lang", "source_lang"}, <<"text", "target_lang">>)

\* CoderTool.get_schema
CoderSchema == Schema({"language", "description"}, <<"language", "description">>)

\* ToolManager.load_tools: name -> tool instance (a tool is its schema here)
load_tools ==
    [n \in Range(ToolOrder) |->
        CASE n = "executeShellCommands" -> CommandExecutionSchema
          [] n = "getGithubUserInfo" -> GitHubSchema
          [] n = "getCurrentStockPrice" -> StockSchema
          [] n = "performWebSearch" -> WebSearchSchema
          [] n = "scrapeVisibleText" -> CrawlerSchema
          [] n = "getProductHuntTrending" -> ProductHuntSchema
          [] n = "takeScreenshotOfWebPage" -> ScreenshotSchema
          [] n = "translateText" -> TranslatorSchema
          [] OTHER -> CoderSchema]

\* schema.get("required", [])
GetRequired(parameters) ==
    IF parameters.hasRequired THEN parameters.required ELSE <<>>

\* what the first prepare_tools_schema() call of this ToolManager returned
VARIABLE first_schemas

\* mutant of prepare_tools_schema: the list is kept on the instance and
\* every call appends to it
prepare_tools_schema_Accumulate(mapping) ==
    LET items == Filter(ToolOrder, [n \in Range(ToolOrder) |-> n \in DOMAIN mapping])
    IN  first_schemas
        \o [i \in 1..Len(items) |->
               [name |-> items[i], parameters |-> mapping[items[i]]]]

\* ToolManager.prepare_tools_schema: one {name, parameters} entry per
\* registry item, in the registry's order (the description is the tool's
\* docstring and plays no part here)
prepare_tools_schema(mapping) ==
    LET items == Filter(ToolOrder, [n \in Range(ToolOrder) |-> n \in DOMAIN mapping])
    IN  [i \in 1..Len(items) |->
            [name |-> items[i], parameters |-> mapping[items[i]]]]

\* all(arg in arguments for arg in required_args); undefined (TypeError) when
\* arguments is None and required_args is not empty
AllRequiredIn(required_args, arguments) ==
    Range(required_args) \subseteq arguments.keys

RaisesTypeError(required_args, arguments) ==
    arguments.null /\ required_args # <<>>

\* ---------------------------------------------------------- provider adapters
\* the shape every get_tool_call_response hands back to process_query;
\* has_result says whether the returned mapping has a "result" key, and
\* message_content / message_tool_calls are choices[0].message of a raw
\* OpenAI ChatCompletion
AdapterReturn(resp, calls) ==
    [raised |-> FALSE, error |-> <<>>, has_result |-> TRUE,
     response |-> resp, tool_calls |-> calls,
     message_content |-> <<>>, message_tool_calls |-> <<>>]

AdapterRaise(err) ==
    [raised |-> TRUE, error |-> err, has_result |-> FALSE,
     response |-> <<>>, tool_calls |-> <<>>,
     message_content |-> <<>>, message_tool_calls |-> <<>>]

ToolNames(tools) == {tools[i].name : i \in DOMAIN tools}

\* next((t for t in tools if t["name"] == tool_name), None), for a known name
SchemaOf(tools, tool_name) ==
    tools[CHOOSE i \in DOMAIN tools :
            /\ tools[i].name = tool_name
            /\ \A j \in DOMAIN tools : tools[j].name = tool_name => i <= j]

\* mutant of CloudflareValidCalls: only the name is checked, not the
\* required arguments
CloudflareValidCalls_NameOnly(tool_calls, tools) ==
    Filter(tool_calls, [c \in UpstreamCalls |-> c.name \in ToolNames(tools)])

\* the validation loop of CloudflareProvider.get_tool_call_response: the
\* calls appended to valid_tool_calls, in the order of the loop
CloudflareValidCalls(tool_calls, tools) ==
    Filter(tool_calls,
           [c \in UpstreamCalls |->
               /\ c.name \in ToolNames(tools)
               /\ AllRequiredIn(GetRequired(SchemaOf(tools, c.name).parameters),
                                c.arguments)])

\* `arg in arguments` with arguments = None raises TypeError, which is not a
\* RequestException and leaves get_tool_call_response
CloudflareTypeError(tool_calls, tools) ==
    \E i \in DOMAIN tool_calls :
        /\ tool_calls[i].name \in ToolNames(tools)
        /\ RaisesTypeError(
              GetRequired(SchemaOf(tools, tool_calls[i].name).parameters),
              tool_calls[i].arguments)

\* CloudflareProvider.get_tool_call_response on a 2xx reply
CloudflareGetToolCallResponse(upstream, tools) ==
    IF CloudflareTypeError(upstream.calls, tools)
    THEN AdapterRaise(<<"TypeError">>)
    ELSE LET valid_tool_calls == CloudflareValidCalls(upstream.calls, tools)
         IN  AdapterReturn(IF valid_tool_calls = <<>> THEN upstream.text
                           ELSE <<>>,
                           valid_tool_calls)

\* `part.function_call` is falsy when no field of the message is set
GeminiFunctionCallSet(c) == ~(c.name = "" /\ c.arguments.null)

\* args = {} unless function_call.args is truthy; then the dict itself
GeminiArgs(arguments) == IF arguments.null THEN Args({}) ELSE arguments

\* the part loop of GeminiProvider.get_tool_call_response: every
\* function_call part becomes {"name": str(name), "arguments": args}
GeminiToolCalls(calls) ==
    LET kept == Filter(calls, [c \in UpstreamCalls |-> GeminiFunctionCallSet(c)])
    IN  [i \in 1..Len(kept) |->
            [name |-> kept[i].name, arguments |-> GeminiArgs(kept[i].arguments)]]

\* response += part.text + " " for a non-empty text part, then .strip()
GeminiText(text) == Strip(IF text # <<>> THEN text \o <<" ">> ELSE <<>>)

\* GeminiProvider.get_tool_call_response on a reply with candidates
GeminiGetToolCallResponse(upstream, tools) ==
    AdapterReturn(GeminiText(upstream.text), GeminiToolCalls(upstream.calls))

\* OpenAIProvider.get_tool_call_response: the ChatCompletion object as is
OpenAIGetToolCallResponse(upstream, tools) ==
    [raised |-> FALSE, error |-> <<>>, has_result |-> FALSE,
     response |-> <<>>, tool_calls |-> <<>>,
     message_content |-> upstream.text, message_tool_calls |-> upstream.calls]

\* self.provider.get_tool_call_response(messages, tools)
get_tool_call_response(p, upstream, tools) ==
    IF p = "cloudflare" THEN CloudflareGetToolCallResponse(upstream, tools)
    ELSE IF p = "gemini" THEN GeminiGetToolCallResponse(upstream, tools)
    ELSE OpenAIGetToolCallResponse(upstream, tools)

\* response.get("result", {}).get("tool_calls", [])
ResultToolCalls(resp) == IF resp.has_result THEN resp.tool_calls ELSE <<>>

\* response.get("result", {}).get("response", "")
ResultResponse(resp) == IF resp.has_result THEN resp.response ELSE <<>>

\* ------------------------------------------------------------ tool execution
\* a value a tool call leaves behind: a dict {key: text} or a plain string
DictOutput(key, text) == [kind |-> "dict", key |-> key, text |-> text]

StrOutput(text) == [kind |-> "str", key |-> "", text |-> text]

\* [arg for arg in required_args if arg not in arguments]
MissingArgs(required_args, arguments) ==
    Filter(required_args, [a \in Range(required_args) |-> a \notin arguments.keys])

NotFoundError(tool_name) ==
    DictOutput("error", <<"Tool '", tool_name, "' not found">>)

MissingArgsError(missing_args) ==
    DictOutput("error", <<"Missing required arguments: ">> \o missing_args)

ExecuteError(tool_name, exc) ==
    DictOutput("error", <<"Failed to execute tool '", tool_name, "': ", exc>>)

\* tool_instance.invoke(arguments) as seen by its caller
InvokeResult(tool_name, outcome) ==
    IF outcome = "dict" THEN DictOutput("result", <<tool_name, " data">>)
    ELSE StrOutput(<<tool_name, " done">>)

\* what call_tool hands to process_query: a returned value, or an exception
\* that left it; invoked says whether the tool's invoke was entered
Returned(output, invoked) ==
    [raised |-> FALSE, error |-> <<>>, output |-> output, invoked |-> invoked]

Escaped(exc, invoked) ==
    [raised |-> TRUE, error |-> <<exc>>, output |-> StrOutput(<<>>),
     invoked |-> invoked]

\* mutant of call_tool: an exception raised by invoke is not caught
call_tool_NoCatch(mapping, tool_name, arguments, outcome) ==
    IF tool_name \notin DOMAIN mapping
    THEN Returned(NotFoundError(tool_name), FALSE)
    ELSE LET required_args == GetRequired(mapping[tool_name])
         IN  IF RaisesTypeError(required_args, arguments)
             THEN Returned(ExecuteError(tool_name, "TypeError"), FALSE)
             ELSE IF ~AllRequiredIn(required_args, arguments)
             THEN Returned(MissingArgsError(
                               MissingArgs(required_args, arguments)), FALSE)
             ELSE IF outcome = "raise"
             THEN Escaped("ToolError", TRUE)
             ELSE Returned(InvokeResult(tool_name, outcome), TRUE)

\* mutant of call_tool: self.tool_mapping[tool_name] instead of .get, so an
\* unregistered name raises KeyError out of call_tool
call_tool_KeyError(mapping, tool_name, arguments, outcome) ==
    IF tool_name \notin DOMAIN mapping
    THEN Escaped("KeyError", FALSE)
    ELSE LET required_args == GetRequired(mapping[tool_name])
         IN  IF RaisesTypeError(required_args, arguments)
             THEN Returned(ExecuteError(tool_name, "TypeError"), FALSE)
             ELSE IF ~AllRequiredIn(required_args, arguments)
             THEN Returned(MissingArgsError(
                               MissingArgs(required_args, arguments)), FALSE)
             ELSE IF outcome = "raise"
             THEN Returned(ExecuteError(tool_name, "ToolError"), TRUE)
             ELSE Returned(InvokeResult(tool_name, outcome), TRUE)

\* mutant of call_tool: the required-argument check stands outside the try
\* block, so the TypeError of `arg in None` leaves call_tool
call_tool_CheckOutsideTry(mapping, tool_name, arguments, outcome) ==
    IF tool_name \notin DOMAIN mapping
    THEN Returned(NotFoundError(tool_name), FALSE)
    ELSE LET required_args == GetRequired(mapping[tool_name])
         IN  IF RaisesTypeError(required_args, arguments)
             THEN Escaped("TypeError", FALSE)
             ELSE IF ~AllRequiredIn(required_args, arguments)
             THEN Returned(MissingArgsError(
                               MissingArgs(required_args, arguments)), FALSE)
             ELSE IF outcome = "raise"
             THEN Returned(ExecuteError(tool_name, "ToolError"), TRUE)
             ELSE Returned(InvokeResult(tool_name, outcome), TRUE)

\* ToolManager.call_tool (everything in it runs under `except Exception`)
call_tool(mapping, tool_name, arguments, outcome) ==
    IF tool_name \notin DOMAIN mapping
    THEN Returned(NotFoundError(tool_name), FALSE)
    ELSE LET required_args == GetRequired(mapping[tool_name])
         IN  IF RaisesTypeError(required_args, arguments)
             THEN Returned(ExecuteError(tool_name, "TypeError"), FALSE)
             ELSE IF ~AllRequiredIn(required_args, arguments)
             THEN Returned(MissingArgsError(
                               MissingArgs(required_args, arguments)), FALSE)
             ELSE IF outcome = "raise"
             THEN Returned(ExecuteError(tool_name, "ToolError"), TRUE)
             ELSE Returned(InvokeResult(tool_name, outcome), TRUE)

\* mutant of MappingAfterCall: the looked-up entry is taken out of the
\* registry (dict.pop instead of dict.get)
MappingAfterCall_Pop(mapping, tool_name) ==
    [n \in DOMAIN mapping \ {tool_name} |-> mapping[n]]

\* self.tool_mapping once call_tool is over: the lookup is dict.get and
\* nothing assigns to the mapping or to one of its entries
MappingAfterCall(mapping, tool_name) == mapping

\* mutant of FormatOutput: a dict is rendered with str() like everything else
FormatOutput_Repr(raw_output) == raw_output.text

\* json.dumps(raw_output) for a dict, str(raw_output) otherwise
FormatOutput(raw_output) ==
    IF raw_output.kind = "dict"
    THEN <<"{\"", raw_output.key, "\": \"">> \o raw_output.text \o <<"\"}">>
    ELSE raw_output.text

\* f"Tool {tool_name} output:\n{output}"
Segment(tool_name, output) == <<"Tool ", tool_name, " output:\n">> \o output

\* ---------------------------------------------------------------- summarizer
Apology == <<"I apologize, but I couldn't generate a proper response at this time. Please try again.">>

ApologyFormat == <<"I apologize, but I received an unexpected response format. Please try again.">>

ChatOutcomes == ChatReplies \cup {[kind |-> "RequestException", text |-> <<>>]}

\* response.get("result", {}).get("response", "") on a dict whose "result"
\* is a string has no .get to call: AttributeError, logged and re-raised
\* (lines 126 and 164-170)
ReplyRaises(reply) == reply.kind = "dict_result_str"

\* the reply handling of get_friendly_response (lines 118-155) when it returns
FriendlyFromReply(reply) ==
    IF reply.kind = "other" THEN ApologyFormat
    ELSE LET res == IF reply.kind = "dict_other" THEN <<>> ELSE reply.text
         IN  IF res = <<>> THEN Apology ELSE Strip(res)

\* no reply: chat was not called, or did not return
NoReply == [kind |-> "none", text |-> <<>>]

\* how a get_friendly_response call ends; reply is what chat handed back
Raised(exc, chat_called, reply) ==
    [raised |-> TRUE, error |-> <<exc>>, value |-> <<>>,
     chat_called |-> chat_called, reply |-> reply]

\* what get_friendly_response does once chat was called
AfterChat(chat) ==
    IF chat.kind = "RequestException"
    THEN Raised("RequestException", TRUE, NoReply)
    ELSE IF ReplyRaises(chat) THEN Raised("AttributeError", TRUE, chat)
    ELSE [raised |-> FALSE, error |-> <<>>, value |-> FriendlyFromReply(chat),
          chat_called |-> TRUE, reply |-> chat]

\* mutant of get_friendly_response: the empty-parameter check is missing
get_friendly_response_NoValidation(user_query, tool_output, chat) ==
    AfterChat(chat)

\* FriendlyAiResponse.get_friendly_response
get_friendly_response(user_query, tool_output, chat) ==
    IF user_query = "" \/ tool_output = <<>>
    THEN Raised("ValueError", FALSE, NoReply)
    ELSE AfterChat(chat)

\* --------------------------------------------------------------------- state
VARIABLES
    provider,        \* the provider argument of ToolManager(...)
    config,          \* the credential attributes Config holds
    tool_mapping,    \* self.tool_mapping
    pc,              \* where process_query stands
    query,           \* the query argument
    tool_schemas,    \* prepare_tools_schema() of this run
    upstream,        \* the reply the upstream model API gave
    response,        \* what get_tool_call_response returned
    idx,             \* position of the tool-call loop
    tool_outputs,    \* the segments collected so far
    invokeLog,       \* every tool invoke entered, in order
    providerCalls,   \* get_tool_call_response calls of this run
    summarizerCalls, \* every get_friendly_response call of this run
    chatCalls,       \* provider.chat calls issued by the summarizer
    summary,         \* how the get_friendly_response call ended
    history,         \* one entry per step of this run: what was done, where
                     \* process_query stood afterwards
    result           \* the outcome process_query hands to its caller

\* the legacy ToolManager of src/tools (one Cloudflare endpoint, no provider
\* adapters): a run of its process_query
VARIABLES
    legacy_query,    \* the user_query argument
    legacy_reply,    \* how requests.post / response.json() came out
    legacy_friendly, \* the FriendlyAiResponse.get_friendly_response calls
    legacy_result    \* what process_query handed back

coreVars == <<provider, config, tool_mapping, pc, query, tool_schemas,
              first_schemas, upstream, response, idx, tool_outputs, invokeLog,
              providerCalls, summarizerCalls, chatCalls, summary, history,
              result>>

legacyVars == <<legacy_query, legacy_reply, legacy_friendly, legacy_result>>

\* one call of GeminiProvider.get_tool_call_response, looked at part by part
VARIABLES
    gemini_passed,       \* the tools argument as the caller passed it
    gemini_tools,        \* the same list once the call is over
    gemini_declarations, \* function_declarations sent to the API
    gemini_reply,        \* what generate_content gave
    gemini_response,     \* what get_tool_call_response handed back
    gemini_calls         \* calls made

geminiVars == <<gemini_passed, gemini_tools, gemini_declarations, gemini_reply,
                gemini_response, gemini_calls>>

\* a FuturisticLoading object, its animation threads and the main thread
\* that calls start, text and stop
VARIABLES
    loader_module,   \* which of the two FuturisticLoading classes it is
    is_loading,      \* self.is_loading / self.loading
    loading_thread,  \* self.loading_thread / self.thread (0: None)
    current_text,    \* self.current_text
    threads,         \* where each animation thread started so far stands
    main_pc,         \* where the main thread stands
    loader_calls,    \* the calls the main thread has returned from
    stdout_last      \* what was written to stdout last

loaderVars == <<loader_module, is_loading, loading_thread, current_text,
                threads, main_pc, loader_calls, stdout_last>>

\* what the steps of ToolManager (src/shellsense) leave alone
outsideCore == <<legacyVars, geminiVars, loaderVars>>

outsideLegacy == <<coreVars, geminiVars, loaderVars>>

outsideGemini == <<coreVars, legacyVars, loaderVars>>

outsideLoader == <<coreVars, legacyVars, geminiVars>>

vars == <<coreVars, legacyVars, geminiVars, loaderVars>>

\* a step of the run: ev names the external operation the step performed
Step(ev, to) == [ev |-> ev, to |-> to]

NoUpstream == [text |-> <<>>, calls |-> <<>>]

NoResponse == AdapterRaise(<<>>)

NoSummary ==
    [raised |-> FALSE, error |-> <<>>, value |-> <<>>, chat_called |-> FALSE,
     reply |-> NoReply]

NoResult == [kind |-> "none", value |-> <<>>]

Answer(text) == [kind |-> "answer", value |-> text]

Failure(err) == [kind |-> "error", value |-> err]

\* no query has been processed yet
NoRunYet ==
    /\ query = ""
    /\ tool_schemas = <<>>
    /\ first_schemas = <<>>
    /\ upstream = NoUpstream
    /\ response = NoResponse
    /\ idx = 0
    /\ tool_outputs = <<>>
    /\ invokeLog = <<>>
    /\ providerCalls = 0
    /\ summarizerCalls = <<>>
    /\ chatCalls = 0
    /\ summary = NoSummary
    /\ history = <<>>
    /\ result = NoResult

\* no request made, nothing handed back
NoLegacyReply ==
    [kind |-> "none", result |-> "absent", tool_calls |-> <<>>,
     response |-> <<>>]

\* nothing asked of the Gemini adapter, nothing handed back
NoGeminiReply == [kind |-> "none", parts |-> <<>>]

NoGeminiResponse ==
    [raised |-> FALSE, error |-> <<>>, response |-> <<>>, tool_calls |-> <<>>]

\* GeminiProvider.get_tool_call_response has not been called
GeminiOff ==
    /\ gemini_passed = <<>>
    /\ gemini_tools = <<>>
    /\ gemini_declarations = <<>>
    /\ gemini_reply = NoGeminiReply
    /\ gemini_response = NoGeminiResponse
    /\ gemini_calls = 0

\* no FuturisticLoading object exists
LoaderOff ==
    /\ loader_module = "none"
    /\ is_loading = FALSE
    /\ loading_thread = 0
    /\ current_text = ""
    /\ threads = <<>>
    /\ main_pc = "ready"
    /\ loader_calls = <<>>
    /\ stdout_last = "none"

\* the legacy ToolManager is not in use
LegacyOff ==
    /\ legacy_query = ""
    /\ legacy_reply = NoLegacyReply
    /\ legacy_friendly = <<>>
    /\ legacy_result = NoResult

\* the ToolManager of src/shellsense is not in use
CoreOff ==
    /\ provider = "cloudflare"
    /\ config = {}
    /\ tool_mapping = <<>>
    /\ pc = "Constructing"
    /\ NoRunYet

\* a ToolManager constructed with every credential in the environment
Init ==
    /\ provider \in Providers
    /\ config = update_from_dict(EnvVars)
    /\ tool_mapping = load_tools
    /\ pc = "Idle"
    /\ NoRunYet
    /\ LegacyOff
    /\ GeminiOff
    /\ LoaderOff

\* the process before ToolManager(provider) is called: Config still has its
\* class defaults (None) and there is no registry
StartupInit ==
    /\ provider \in ProviderNames
    /\ config = {}
    /\ tool_mapping = <<>>
    /\ pc = "Constructing"
    /\ NoRunYet
    /\ LegacyOff
    /\ GeminiOff
    /\ LoaderOff

\* ToolManager.__init__ (lines 36-63): the environment is read into Config,
\* then either every step succeeds or the first ValueError is re-raised
ToolManagerInit ==
    /\ pc = "Constructing"
    /\ \E environ \in Environs : config' = update_from_dict(environ)
    /\ LET err == ToolManagerInitError(config', provider)
       IN  IF err = <<>>
           THEN /\ tool_mapping' = load_tools
                /\ pc' = "Idle"
                /\ result' = result
           ELSE /\ tool_mapping' = tool_mapping
                /\ pc' = "ConstructionFailed"
                /\ result' = Failure(err)
    /\ UNCHANGED <<provider, query, tool_schemas, first_schemas, upstream,
                   response, idx, tool_outputs, invokeLog, providerCalls,
                   summarizerCalls, chatCalls, summary, history>>
    /\ UNCHANGED outsideCore

\* process_query up to the provider call (lines 151-168)
ProcessQuery ==
    /\ pc = "Idle"
    /\ \E q \in Queries : query' = q
    /\ tool_schemas' = prepare_tools_schema(tool_mapping)
    /\ first_schemas' =
          IF first_schemas = <<>> THEN tool_schemas' ELSE first_schemas
    /\ providerCalls' = providerCalls + 1
    /\ pc' = "AwaitingFirstResponse"
    /\ history' = Append(history, Step("provider_call", pc'))
    /\ UNCHANGED <<provider, config, tool_mapping, upstream, response, idx,
                   tool_outputs, invokeLog, summarizerCalls, chatCalls,
                   summary, result>>
    /\ UNCHANGED outsideCore

\* mutant of AfterFirstResponse: the direct response text is dropped
AfterFirstResponse_DropText(resp) ==
    IF resp.raised
    THEN /\ pc' = "Done"
         /\ result' = Failure(resp.error)
         /\ idx' = idx
    ELSE IF ResultToolCalls(resp) # <<>>
    THEN /\ pc' = "ExecutingTools"
         /\ result' = result
         /\ idx' = 1
    ELSE /\ pc' = "Done"
         /\ result' = Answer(<<>>)
         /\ idx' = idx

\* mutant of AfterFirstResponse: tool calls are ignored and the response
\* text is returned at once
AfterFirstResponse_SkipTools(resp) ==
    IF resp.raised
    THEN /\ pc' = "Done"
         /\ result' = Failure(resp.error)
         /\ idx' = idx
    ELSE /\ pc' = "Done"
         /\ result' = Answer(ResultResponse(resp))
         /\ idx' = idx

\* what process_query does with the value the adapter returned (lines
\* 170-176 and 218-226)
AfterFirstResponse(resp) ==
    IF resp.raised
    THEN /\ pc' = "Done"
         /\ result' = Failure(resp.error)
         /\ idx' = idx
    ELSE IF ResultToolCalls(resp) # <<>>
    THEN /\ pc' = "ExecutingTools"
         /\ result' = result
         /\ idx' = 1
    ELSE /\ pc' = "Done"
         /\ result' = Answer(ResultResponse(resp))
         /\ idx' = idx

\* the upstream API answers 2xx and the adapter normalises the reply
ProviderReplies ==
    /\ pc = "AwaitingFirstResponse"
    /\ \E u \in Upstreams :
          /\ upstream' = u
          /\ response' = get_tool_call_response(provider, u, tool_schemas)
    /\ AfterFirstResponse(response')
    /\ history' = Append(history, Step("provider_reply", pc'))
    /\ UNCHANGED <<provider, config, tool_mapping, query, tool_schemas,
                   first_schemas, tool_outputs, invokeLog, providerCalls,
                   summarizerCalls, chatCalls, summary>>
    /\ UNCHANGED outsideCore

\* mutant of ProviderFails: a failed provider call is issued once more
ProviderFails_Retry ==
    /\ pc = "AwaitingFirstResponse"
    /\ IF providerCalls = 1
       THEN /\ providerCalls' = providerCalls + 1
            /\ UNCHANGED <<pc, result>>
       ELSE /\ pc' = "Done"
            /\ result' = Failure(<<"RequestException">>)
            /\ UNCHANGED providerCalls
    /\ history' = Append(history, Step("provider_failure", pc'))
    /\ UNCHANGED <<provider, config, tool_mapping, query, tool_schemas,
                   first_schemas, upstream, response, idx, tool_outputs,
                   invokeLog, summarizerCalls, chatCalls, summary>>
    /\ UNCHANGED outsideCore

\* the upstream call fails (timeout, non-2xx): the adapter re-raises and so
\* does process_query
ProviderFails ==
    /\ pc = "AwaitingFirstResponse"
    /\ pc' = "Done"
    /\ result' = Failure(<<"RequestException">>)
    /\ history' = Append(history, Step("provider_failure", pc'))
    /\ UNCHANGED <<provider, config, tool_mapping, query, tool_schemas,
                   first_schemas, upstream, response, idx, tool_outputs,
                   invokeLog, providerCalls, summarizerCalls, chatCalls,
                   summary>>
    /\ UNCHANGED outsideCore

\* mutant of SkipsToolCall: an entry without a name goes to call_tool like
\* any other
SkipsToolCall_Never(tool_name) == FALSE

\* `if not tool_name: continue` (None and "" alike)
SkipsToolCall(tool_name) == tool_name = ""

\* one iteration of the tool-call loop (lines 180-204); an exception that
\* reaches process_query is logged and re-raised (lines 222-226)
ExecuteToolCall ==
    /\ pc = "ExecutingTools"
    /\ idx <= Len(ResultToolCalls(response))
    /\ LET tool_call == ResultToolCalls(response)[idx]
           tool_name == tool_call.name
           arguments == tool_call.arguments
       IN  IF SkipsToolCall(tool_name)
           THEN /\ history' = Append(history, Step("skip", pc))
                /\ UNCHANGED <<tool_mapping, tool_outputs, invokeLog, pc,
                               result>>
           ELSE \E outcome \in InvokeOutcomes :
                  LET r == call_tool(tool_mapping, tool_name, arguments, outcome)
                  IN  /\ tool_mapping' = MappingAfterCall(tool_mapping, tool_name)
                      /\ history' =
                           Append(history,
                                  Step(IF r.invoked THEN "invoke"
                                       ELSE "no_invoke",
                                       IF r.raised THEN "Done" ELSE pc))
                      /\ invokeLog' =
                           IF r.invoked
                           THEN Append(invokeLog,
                                       [idx |-> idx, name |-> tool_name,
                                        arguments |-> arguments,
                                        outcome |-> outcome])
                           ELSE invokeLog
                      /\ IF r.raised
                         THEN /\ pc' = "Done"
                              /\ result' = Failure(r.error)
                              /\ tool_outputs' = tool_outputs
                         ELSE /\ tool_outputs' =
                                   Append(tool_outputs,
                                          Segment(tool_name,
                                                  FormatOutput(r.output)))
                              /\ UNCHANGED <<pc, result>>
    /\ idx' = idx + 1
    /\ UNCHANGED <<provider, config, query, tool_schemas, first_schemas,
                   upstream, response, providerCalls, summarizerCalls,
                   chatCalls, summary>>
    /\ UNCHANGED outsideCore

\* after the loop: join the segments and call the summarizer (lines 207-214)
CallSummarizer ==
    /\ pc = "ExecutingTools"
    /\ idx > Len(ResultToolCalls(response))
    /\ summarizerCalls' =
          Append(summarizerCalls,
                 [user_query |-> query, tool_output |-> Join(tool_outputs)])
    /\ pc' = "AwaitingSummary"
    /\ history' = Append(history, Step("summarizer_call", pc'))
    /\ UNCHANGED <<provider, config, tool_mapping, query, tool_schemas,
                   first_schemas, upstream, response, idx, tool_outputs,
                   invokeLog, providerCalls, chatCalls, summary, result>>
    /\ UNCHANGED outsideCore

\* mutant of AfterSummary: the failure is turned into an answer string
AfterSummary_Swallow(r) ==
    IF r.raised THEN Answer(<<"Error processing your query: ">> \o r.error)
    ELSE Answer(r.value)

\* what process_query does with the summarizer's outcome (lines 215-226)
AfterSummary(r) ==
    IF r.raised THEN Failure(r.error) ELSE Answer(r.value)

\* get_friendly_response runs and process_query returns or re-raises
GetFriendlyResponse ==
    /\ pc = "AwaitingSummary"
    /\ \E chat \in ChatOutcomes :
          LET call == summarizerCalls[Len(summarizerCalls)]
              r == get_friendly_response(call.user_query, call.tool_output, chat)
          IN  /\ summary' = r
              /\ history' =
                   Append(history,
                          Step(IF r.chat_called THEN "chat" ELSE "rejected",
                               "Done"))
              /\ chatCalls' = IF r.chat_called THEN chatCalls + 1 ELSE chatCalls
              /\ result' = AfterSummary(r)
    /\ pc' = "Done"
    /\ UNCHANGED <<provider, config, tool_mapping, query, tool_schemas,
                   first_schemas, upstream, response, idx, tool_outputs,
                   invokeLog, providerCalls, summarizerCalls>>
    /\ UNCHANGED outsideCore

\* the caller is done with the outcome; the next process_query starts from
\* the registry and provider alone
NextQuery ==
    /\ pc = "Done"
    /\ pc' = "Idle"
    /\ query' = ""
    /\ tool_schemas' = <<>>
    /\ upstream' = NoUpstream
    /\ response' = NoResponse
    /\ idx' = 0
    /\ tool_outputs' = <<>>
    /\ invokeLog' = <<>>
    /\ providerCalls' = 0
    /\ summarizerCalls' = <<>>
    /\ chatCalls' = 0
    /\ summary' = NoSummary
    /\ history' = <<>>
    /\ result' = NoResult
    /\ UNCHANGED <<provider, config, tool_mapping, first_schemas>>
    /\ UNCHANGED outsideCore

Next ==
    \/ ProcessQuery
    \/ ProviderReplies
    \/ ProviderFails
    \/ ExecuteToolCall
    \/ CallSummarizer
    \/ GetFriendlyResponse
    \/ NextQuery

Spec == Init /\ [][Next]_vars

\* the same program from process start, construction included
StartupNext ==
    \/ ToolManagerInit
    \/ Next

StartupSpec == StartupInit /\ [][StartupNext]_vars

TypeOK ==
    /\ provider \in ProviderNames
    /\ config \subseteq ConfigAttrs
    /\ pc \in {"Constructing", "ConstructionFailed", "Idle",
                "AwaitingFirstResponse", "ExecutingTools", "AwaitingSummary",
                "Done"}
    /\ query \in Queries
    /\ idx \in 0..(MaxCalls + 1)
    /\ result.kind \in {"none", "answer", "error"}

\* ------------------------------------------------- legacy ToolManager (src/tools)
MaxLegacyCalls == 2

\* the keys of load_tools, in insertion order
LegacyToolOrder ==
    <<"executeShellCommands", "getGithubUserInfo", "getCurrentStockPrice",
      "performWebSearch", "scrapeVisibleText", "getProductHuntTrending",
      "takeScreenshotOfWebPage", "translateText", "wikipediaSearch",
      "generateCode", "genericAiResponse">>

LegacyQueries == Queries \cup {"Invalid test query for error handling."}

\* the names the upstream model puts into result.tool_calls
LegacyCalledNames == {"getCurrentStockPrice", "bogusTool"}

\* requests.post(...), raise_for_status() and response.json(): a failed
\* request, or a JSON body whose "result" is missing, null or an object
\* with tool_calls and response
LegacyReplies ==
    {[kind |-> k, result |-> "absent", tool_calls |-> <<>>, response |-> <<>>] :
        k \in {"ConnectionError", "HTTPError"}}
    \cup {[kind |-> "json", result |-> r, tool_calls |-> <<>>,
           response |-> <<>>] : r \in {"absent", "null"}}
    \cup {[kind |-> "json", result |-> "dict", tool_calls |-> c,
           response |-> t] :
             c \in SeqsUpTo({[name |-> n] : n \in LegacyCalledNames},
                            MaxLegacyCalls),
             t \in UpstreamTexts}

\* how the second request, made by FriendlyAiResponse, comes out
LegacyFriendlyOutcomes == {"text", "not_success", "RequestException", "KeyError"}

\* pyplugin FriendlyAiResponse.get_friendly_response: the reply's
\* result.response, one of two fixed sentences, or a KeyError that leaves it
LegacyFriendlyResponse(outcome) ==
    CASE outcome = "text" ->
           [raised |-> FALSE, value |-> <<"AAPL trades at 190.">>]
      [] outcome = "not_success" ->
           [raised |-> FALSE,
            value |-> <<"Oops! The AI could not process the request successfully.">>]
      [] outcome = "RequestException" ->
           [raised |-> FALSE,
            value |-> <<"Oops! Something went wrong while refining the response.">>]
      [] OTHER -> [raised |-> TRUE, value |-> <<"'response'">>]

\* legacy call_tool: the invoke result, or an error dict when invoke raises
LegacyCallTool(tool_name, outcome) ==
    IF tool_name \notin Range(LegacyToolOrder)
    THEN DictOutput("error", <<"Tool '", tool_name, "' not found.">>)
    ELSE IF outcome = "raise"
    THEN DictOutput("error",
                    <<"Failed to invoke tool '", tool_name, "': ", "ToolError">>)
    ELSE InvokeResult(tool_name, outcome)

\* one entry of aggregated_output (lines 91-109)
LegacyItem(tool_call, outcome) ==
    IF tool_call.name \notin Range(LegacyToolOrder)
    THEN [tool |-> tool_call.name,
          output |-> DictOutput("error", <<"Tool '", tool_call.name,
                                           "' is not available.">>)]
    ELSE [tool |-> tool_call.name,
          output |-> LegacyCallTool(tool_call.name, outcome)]

\* str(output) inside the f-string: a dict comes out as its Python repr
LegacyRepr(output) ==
    IF output.kind = "dict"
    THEN <<"{'", output.key, "': '">> \o output.text \o <<"'}">>
    ELSE output.text

\* "\n\n".join(f"Tool: {item['tool']}\nOutput: {item['output']}" ...)
LegacyCombined(tool_calls, outcomes) ==
    Join([i \in DOMAIN tool_calls |->
            LET item == LegacyItem(tool_calls[i], outcomes[i])
            IN  <<"Tool: ", item.tool, "\nOutput: ">> \o LegacyRepr(item.output)])

LegacyFallback == <<"I'm sorry, I couldn't process your query.">>

LegacyError(exc) == <<"Error processing your query: ", exc>>

\* legacy ToolManager.process_query (lines 58-138): the value handed back
\* and the get_friendly_response calls made on the way
legacy_process_query(user_query, reply, outcomes, friendly) ==
    IF reply.kind # "json"
    THEN [result |-> Answer(LegacyError(reply.kind)), friendly |-> <<>>]
    ELSE IF reply.result = "null"
    THEN [result |-> Answer(LegacyError("AttributeError")), friendly |-> <<>>]
    ELSE IF reply.tool_calls # <<>>
    THEN LET combined == LegacyCombined(reply.tool_calls, outcomes)
             r == LegacyFriendlyResponse(friendly)
         IN  [result |-> IF r.raised
                         THEN Answer(LegacyError(r.value[1]))
                         ELSE Answer(r.value),
              friendly |-> <<[user_query |-> user_query,
                              tool_output |-> combined]>>]
    ELSE IF reply.response # <<>>
    THEN [result |-> Answer(reply.response), friendly |-> <<>>]
    ELSE [result |-> Answer(LegacyFallback), friendly |-> <<>>]

LegacyInit ==
    /\ CoreOff
    /\ LegacyOff
    /\ GeminiOff
    /\ LoaderOff

\* one call of the legacy process_query, from the request to the return
LegacyProcessQuery ==
    /\ legacy_result = NoResult
    /\ \E q \in LegacyQueries, reply \in LegacyReplies,
          friendly \in LegacyFriendlyOutcomes :
          \E outcomes \in [DOMAIN reply.tool_calls -> InvokeOutcomes] :
             LET r == legacy_process_query(q, reply, outcomes, friendly)
             IN  /\ legacy_query' = q
                 /\ legacy_reply' = reply
                 /\ legacy_friendly' = r.friendly
                 /\ legacy_result' = r.result
    /\ UNCHANGED outsideLegacy

\* the caller asks again
LegacyNextQuery ==
    /\ legacy_result # NoResult
    /\ legacy_query' = ""
    /\ legacy_reply' = NoLegacyReply
    /\ legacy_friendly' = <<>>
    /\ legacy_result' = NoResult
    /\ UNCHANGED outsideLegacy

LegacyNext ==
    \/ LegacyProcessQuery
    \/ LegacyNextQuery

LegacySpec == LegacyInit /\ [][LegacyNext]_vars

\* ------------------------------------------- Gemini adapter, part by part
MaxParts == 3

\* JSON schemas as the tools write them: a dict is a record, a list a tuple
StringArraySchema ==
    [type |-> "array", items |-> [type |-> "string"],
     description |-> "List of shell commands to execute"]

CommandExecutionParameters ==
    [type |-> "object",
     properties |->
        [commands |->
            [oneOf |-> <<StringArraySchema,
                         [type |-> "string",
                          description |-> "Single command or commands separated by '&&'"]>>],
         confirm_harmful |->
            [type |-> "boolean",
             description |-> "Whether to execute commands flagged as harmful"]],
     required |-> <<"commands">>]

StockParameters ==
    [type |-> "object",
     properties |->
        [symbol |-> [type |-> "string",
                     description |-> "Stock symbol (e.g., AAPL, GOOGL)"],
         action |-> [type |-> "string",
                     enum |-> <<"getCurrentPrice", "getCompanyProfile",
                                "getAnalystRecommendations">>,
                     description |-> "Action to perform on the stock data"]],
     required |-> <<"symbol", "action">>]

GitHubParameters ==
    [type |-> "object",
     properties |->
        [username |-> [type |-> "string",
                       description |-> "GitHub username to fetch information for (e.g., 'octocat')"],
         query |-> [type |-> "string",
                    description |-> "Alternative field for username (for compatibility)"]],
     anyOf |-> <<[required |-> <<"username">>], [required |-> <<"query">>]>>]

\* a tool that takes its commands as a list only: the array alternative of
\* CommandExecutionTool as the property's schema
CommandListParameters ==
    [type |-> "object",
     properties |-> [commands |-> StringArraySchema],
     required |-> <<"commands">>]

GeminiTool(name, parameters) == [name |-> name, parameters |-> parameters]

\* the tools argument of get_tool_call_response
GeminiToolLists ==
    { <<GeminiTool("executeShellCommands", CommandExecutionParameters)>>,
      <<GeminiTool("getCurrentStockPrice", StockParameters)>>,
      <<GeminiTool("getGithubUserInfo", GitHubParameters)>>,
      <<GeminiTool("executeShellCommands", CommandListParameters)>>,
      <<GeminiTool("executeShellCommands", CommandExecutionParameters),
        GeminiTool("getGithubUserInfo", GitHubParameters),
        GeminiTool("getCurrentStockPrice", StockParameters)>> }

\* str.upper() on a JSON-schema type token
Upper(token) ==
    CASE token = "object" -> "OBJECT"
      [] token = "string" -> "STRING"
      [] token = "array" -> "ARRAY"
      [] token = "boolean" -> "BOOLEAN"
      [] token = "integer" -> "INTEGER"
      [] token = "number" -> "NUMBER"
      [] OTHER -> token

\* `key in schema`
HasKey(schema, key) == key \in DOMAIN schema

\* a dict with this one key if the condition holds, else no key
KeyIf(cond, key, value) == IF cond THEN key :> value ELSE <<>>

\* mutant of convert_schema_to_gemini: array items are copied as they are
RECURSIVE convert_schema_to_gemini_RawItems(_)
convert_schema_to_gemini_RawItems(schema) ==
    KeyIf(HasKey(schema, "type"), "type",
          IF HasKey(schema, "type") THEN Upper(schema.type) ELSE "")
    @@ KeyIf(HasKey(schema, "properties"), "properties",
             IF HasKey(schema, "properties")
             THEN [p \in DOMAIN schema.properties |->
                     convert_schema_to_gemini_RawItems(schema.properties[p])]
             ELSE <<>>)
    @@ KeyIf(HasKey(schema, "required"), "required",
             IF HasKey(schema, "required") THEN schema.required ELSE <<>>)
    @@ KeyIf(HasKey(schema, "items"), "items",
             IF HasKey(schema, "items") THEN schema.items ELSE <<>>)
    @@ KeyIf(HasKey(schema, "description"), "description",
             IF HasKey(schema, "description") THEN schema.description ELSE "")
    @@ KeyIf(HasKey(schema, "enum"), "enum",
             IF HasKey(schema, "enum") THEN schema.enum ELSE <<>>)

\* GeminiProvider._convert_schema_to_gemini: a new dict with the type token
\* upper-cased, properties and array items converted in turn, required,
\* description and enum taken over, every other key left out
RECURSIVE convert_schema_to_gemini(_)
convert_schema_to_gemini(schema) ==
    KeyIf(HasKey(schema, "type"), "type",
          IF HasKey(schema, "type") THEN Upper(schema.type) ELSE "")
    @@ KeyIf(HasKey(schema, "properties"), "properties",
             IF HasKey(schema, "properties")
             THEN [p \in DOMAIN schema.properties |->
                     convert_schema_to_gemini(schema.properties[p])]
             ELSE <<>>)
    @@ KeyIf(HasKey(schema, "required"), "required",
             IF HasKey(schema, "required") THEN schema.required ELSE <<>>)
    @@ KeyIf(HasKey(schema, "items")
                /\ HasKey(schema, "type") /\ schema.type = "array",
             "items",
             IF HasKey(schema, "items")
             THEN convert_schema_to_gemini(schema.items) ELSE <<>>)
    @@ KeyIf(HasKey(schema, "description"), "description",
             IF HasKey(schema, "description") THEN schema.description ELSE "")
    @@ KeyIf(HasKey(schema, "enum"), "enum",
             IF HasKey(schema, "enum") THEN schema.enum ELSE <<>>)

\* the schema passed in, once _convert_schema_to_gemini has returned: it is
\* only read, every write goes to cleaned_schema
SchemaAfterConvert(schema) == schema

\* function_declarations (lines 171-192)
FunctionDeclarations(tools) ==
    [i \in DOMAIN tools |->
        [name |-> tools[i].name,
         parameters |-> convert_schema_to_gemini(tools[i].parameters)]]

\* the tools list once the declarations are built
ToolsAfterDeclarations(tools) ==
    [i \in DOMAIN tools |->
        [name |-> tools[i].name,
         parameters |-> SchemaAfterConvert(tools[i].parameters)]]

\* function_call.args: unset or empty ("none"), a dict, a protobuf map that
\* dict() accepts ("MapComposite"), or a value dict() raises on ("opaque")
PlainDict(ks) == [container |-> "dict", keys |-> ks]

GeminiContainers ==
    { [container |-> "none", keys |-> {}],
      PlainDict({"symbol", "action"}),
      [container |-> "MapComposite", keys |-> {"symbol", "action"}],
      [container |-> "opaque", keys |-> {}] }

TextPart(text) ==
    [kind |-> "text", text |-> text, name |-> "",
     args |-> [container |-> "none", keys |-> {}]]

FunctionCallPart(name, args) ==
    [kind |-> "function_call", text |-> <<>>, name |-> name, args |-> args]

\* candidate.content.parts
GeminiParts ==
    {TextPart(<<"Hi there!">>)}
    \cup {FunctionCallPart(n, a) : n \in CalledTools, a \in GeminiContainers}

\* generate_content: it raises, it has no candidates, or it has parts
GeminiReplies ==
    {[kind |-> k, parts |-> <<>>] : k \in {"raise", "no_candidates"}}
    \cup {[kind |-> "parts", parts |-> ps] : ps \in SeqsUpTo(GeminiParts, MaxParts)}

\* mutant of GeminiPartArgs: function_call.args is used as it comes
GeminiPartArgs_AsIs(args) == args

\* args of one function_call part (lines 247-259): {} unless
\* function_call.args is truthy; a dict is used as it is, anything else goes
\* through dict(), and when dict() raises args stays {}
GeminiPartArgs(args) ==
    IF args.container = "none" THEN PlainDict({})
    ELSE IF args.container = "dict" THEN args
    ELSE IF args.container = "MapComposite" THEN PlainDict(args.keys)
    ELSE PlainDict({})

\* the part loop (lines 238-264): text parts add their text and a blank,
\* function_call parts add a tool call
RECURSIVE GeminiExtract(_)
GeminiExtract(parts) ==
    IF parts = <<>> THEN [response |-> <<>>, tool_calls |-> <<>>]
    ELSE LET part == Head(parts)
             rest == GeminiExtract(Tail(parts))
         IN  IF part.kind = "text"
             THEN [response |-> (IF part.text # <<>>
                                 THEN part.text \o <<" ">> ELSE <<>>)
                                \o rest.response,
                   tool_calls |-> rest.tool_calls]
             ELSE [response |-> rest.response,
                   tool_calls |->
                      <<[name |-> part.name,
                         arguments |-> GeminiPartArgs(part.args)]>>
                      \o rest.tool_calls]

\* GeminiProvider.get_tool_call_response (lines 153-289) once the request
\* is made: an API failure is re-raised, otherwise the normalised result
gemini_get_tool_call_response(reply) ==
    IF reply.kind = "raise"
    THEN [raised |-> TRUE, error |-> <<"Exception">>, response |-> <<>>,
          tool_calls |-> <<>>]
    ELSE LET r == GeminiExtract(reply.parts)
         IN  [raised |-> FALSE, error |-> <<>>,
              response |-> Strip(r.response), tool_calls |-> r.tool_calls]

GeminiInit ==
    /\ CoreOff
    /\ LegacyOff
    /\ GeminiOff
    /\ LoaderOff

\* one call of get_tool_call_response: declarations, request, extraction
GeminiCall ==
    /\ gemini_calls = 0
    /\ \E tools \in GeminiToolLists, reply \in GeminiReplies :
          /\ gemini_passed' = tools
          /\ gemini_declarations' = FunctionDeclarations(tools)
          /\ gemini_tools' = ToolsAfterDeclarations(tools)
          /\ gemini_reply' = reply
          /\ gemini_response' = gemini_get_tool_call_response(reply)
    /\ gemini_calls' = 1
    /\ UNCHANGED outsideGemini

\* the caller is done with the result
GeminiNextCall ==
    /\ gemini_calls = 1
    /\ gemini_passed' = <<>>
    /\ gemini_tools' = <<>>
    /\ gemini_declarations' = <<>>
    /\ gemini_reply' = NoGeminiReply
    /\ gemini_response' = NoGeminiResponse
    /\ gemini_calls' = 0
    /\ UNCHANGED outsideGemini

GeminiNext ==
    \/ GeminiCall
    \/ GeminiNextCall

GeminiSpec == GeminiInit /\ [][GeminiNext]_vars

\* --------------------------------------------- FuturisticLoading (spinner)
MaxLoaderCalls == 3

\* the two classes of that name the package ships: utils/loading.py (used
\* by __main__) and utils/futuristic_loading.py (used by ToolManager)
LoaderModules == {"loading", "futuristic_loading"}

LoaderTexts == {"Loading config...", "Thinking....."}

\* FuturisticLoading(): flag down, no thread, nothing written
LoaderInit ==
    /\ CoreOff
    /\ LegacyOff
    /\ GeminiOff
    /\ loader_module \in LoaderModules
    /\ is_loading = FALSE
    /\ loading_thread = 0
    /\ current_text = ""
    /\ threads = <<>>
    /\ main_pc = "ready"
    /\ loader_calls = <<>>
    /\ stdout_last = "none"

\* the main thread is between two calls and may make one more
MainReady == main_pc = "ready" /\ Len(loader_calls) < MaxLoaderCalls

\* start(): loading.py sets the flag and starts a new thread every time;
\* futuristic_loading.py does so only when the flag is down
LoaderStart ==
    /\ MainReady
    /\ \E text \in LoaderTexts :
          IF loader_module = "futuristic_loading" /\ is_loading
          THEN UNCHANGED <<is_loading, loading_thread, current_text, threads>>
          ELSE /\ is_loading' = TRUE
               /\ current_text' = text
               /\ threads' = Append(threads, "check")
               /\ loading_thread' = Len(threads')
    /\ loader_calls' = Append(loader_calls, "start")
    /\ UNCHANGED <<loader_module, main_pc, stdout_last>>
    /\ UNCHANGED outsideLoader

\* text(): the new text is stored; futuristic_loading.py also writes it
LoaderText ==
    /\ MainReady
    /\ \E text \in LoaderTexts : current_text' = text
    /\ stdout_last' =
          IF loader_module = "futuristic_loading" THEN "text" ELSE stdout_last
    /\ loader_calls' = Append(loader_calls, "text")
    /\ UNCHANGED <<loader_module, is_loading, loading_thread, threads, main_pc>>
    /\ UNCHANGED outsideLoader

\* stop() up to the join: the flag goes down. futuristic_loading.py does
\* nothing at all when the flag is already down
LoaderStopBegin ==
    /\ MainReady
    /\ IF loader_module = "futuristic_loading" /\ ~is_loading
       THEN /\ loader_calls' = Append(loader_calls, "stop")
            /\ UNCHANGED <<is_loading, main_pc>>
       ELSE /\ is_loading' = FALSE
            /\ main_pc' = "stopping"
            /\ UNCHANGED loader_calls
    /\ UNCHANGED <<loader_module, loading_thread, current_text, threads,
                   stdout_last>>
    /\ UNCHANGED outsideLoader

\* the rest of stop(): join() of the thread the loader refers to has
\* returned, the final text (or the carriage return) is written
LoaderStopReturn ==
    /\ main_pc = "stopping"
    /\ loading_thread # 0 => threads[loading_thread] = "done"
    /\ stdout_last' = "final"
    /\ main_pc' = "ready"
    /\ loader_calls' = Append(loader_calls, "stop")
    /\ UNCHANGED <<loader_module, is_loading, loading_thread, current_text,
                   threads>>
    /\ UNCHANGED outsideLoader

\* _animate, the loop test: `while self.is_loading`
AnimateCheck(t) ==
    /\ threads[t] = "check"
    /\ threads' = [threads EXCEPT ![t] = IF is_loading THEN "write" ELSE "done"]
    /\ UNCHANGED <<loader_module, is_loading, loading_thread, current_text,
                   main_pc, loader_calls, stdout_last>>
    /\ UNCHANGED outsideLoader

\* _animate, the loop body: one frame is written, then the thread sleeps
AnimateWrite(t) ==
    /\ threads[t] = "write"
    /\ stdout_last' = "frame"
    /\ threads' = [threads EXCEPT ![t] = "check"]
    /\ UNCHANGED <<loader_module, is_loading, loading_thread, current_text,
                   main_pc, loader_calls>>
    /\ UNCHANGED outsideLoader

LoaderNext ==
    \/ LoaderStart
    \/ LoaderText
    \/ LoaderStopBegin
    \/ LoaderStopReturn
    \/ \E t \in DOMAIN threads : AnimateCheck(t)
    \/ \E t \in DOMAIN threads : AnimateWrite(t)

LoaderSpec == LoaderInit /\ [][LoaderNext]_vars

\* ------------------------------------------------------- property vocabulary
\* the tool calls process_query iterates over in the current run
Calls == ResultToolCalls(response)

\* number of entries with a name among the first i tool calls: the position
\* of call i's segment in tool_outputs
SegIndex(calls, i) == Cardinality({j \in 1..i : calls[j].name # ""})

\* the names of the entries that have one, in list order
RECURSIVE NamedNames(_)
NamedNames(calls) ==
    IF calls = <<>> THEN <<>>
    ELSE (IF Head(calls).name # "" THEN <<Head(calls).name>> ELSE <<>>)
         \o NamedNames(Tail(calls))

\* the tool names an aggregated text announces, in text order
RECURSIVE NamesIn(_)
NamesIn(text) ==
    IF Len(text) < 2 THEN <<>>
    ELSE IF Head(text) = "Tool " THEN <<text[2]>> \o NamesIn(Tail(Tail(text)))
    ELSE NamesIn(Tail(text))

Contains(text, sub) ==
    \E k \in 0..(Len(text) - Len(sub)) : SubSeq(text, k + 1, k + Len(sub)) = sub

StrictlyIncreasing(f) == \A i, j \in DOMAIN f : i < j => f[i] < f[j]

\* kept is orig with some entries left out and nothing moved
KeptInOrder(kept, orig) ==
    \E f \in [DOMAIN kept -> DOMAIN orig] :
        /\ \A i \in DOMAIN kept :
              /\ kept[i].name = orig[f[i]].name
              /\ kept[i].arguments.keys = orig[f[i]].arguments.keys
        /\ StrictlyIncreasing(f)

\* a tool call that names a registered tool and carries its required arguments
Executable(c) ==
    /\ c.name \in DOMAIN tool_mapping
    /\ Range(GetRequired(tool_mapping[c.name])) \subseteq c.arguments.keys

Invoked(i) == \E k \in DOMAIN invokeLog : invokeLog[k].idx = i

LoopOver == pc \in {"AwaitingSummary", "Done"} /\ Calls # <<>>

SummarizerErrors ==
    {<<"ValueError">>, <<"RequestException">>, <<"AttributeError">>}

\* the query did not fail on the way to the summarizer
NoFailureBeforeSummary ==
    result.kind = "error" =>
        Len(summarizerCalls) = 1 /\ result.value \in SummarizerErrors

\* C1: a first response with no tool calls and a non-empty response text ends
\* the query at once with exactly that text: no tool invoked, no summarizer
\* call, no chat call.
C1_DirectResponseReturned ==
    (~response.raised /\ Calls = <<>> /\ ResultResponse(response) # <<>>)
        => /\ pc = "Done"
           /\ result = [kind |-> "answer", value |-> response.response]
           /\ invokeLog = <<>>
           /\ summarizerCalls = <<>>
           /\ chatCalls = 0

C1_Witness ==
    /\ pc = "Done"
    /\ ~response.raised
    /\ Calls = <<>>
    /\ response.response = <<"Hi there!">>
    /\ result.value = <<"Hi there!">>

\* C2: the adapter keeps tool calls in upstream order, tools are invoked one
\* after the other in list order, and the segments of the text given to the
\* summarizer come in that same order.
C2_OrderPreserved ==
    /\ KeptInOrder(Calls, upstream.calls)
    /\ \A k \in DOMAIN invokeLog :
          /\ invokeLog[k].idx < idx
          /\ invokeLog[k].idx \in DOMAIN Calls
          /\ Calls[invokeLog[k].idx].name = invokeLog[k].name
          /\ k > 1 => invokeLog[k - 1].idx < invokeLog[k].idx
    /\ pc = "ExecutingTools" =>
          [j \in DOMAIN tool_outputs |-> tool_outputs[j][2]]
              = NamedNames(SubSeq(Calls, 1, idx - 1))
    /\ \A n \in DOMAIN summarizerCalls :
          NamesIn(summarizerCalls[n].tool_output) = NamedNames(Calls)

C2_Witness ==
    /\ pc = "Done"
    /\ Len(invokeLog) = 2
    /\ invokeLog[1].name # invokeLog[2].name
    /\ Len(summarizerCalls) = 1
    /\ NamesIn(summarizerCalls[1].tool_output)
          = <<invokeLog[1].name, invokeLog[2].name>>

C5_UnknownNamesExcluded ==
    \A c \in Range(response.tool_calls) \cup Range(response.message_tool_calls) :
        c.name \in ToolNames(tool_schemas)

\* C6: whichever provider produced it, a tool call lacking a required
\* argument is gone from the valid set before the execution step, its tool is
\* never invoked and it does not make the query fail.
C6_MissingRequiredDropped ==
    /\ \A i \in DOMAIN Calls :
          Calls[i].name \in DOMAIN tool_mapping => Executable(Calls[i])
    /\ \A k \in DOMAIN invokeLog :
          Range(GetRequired(tool_mapping[invokeLog[k].name]))
              \subseteq invokeLog[k].arguments.keys
    /\ result.kind = "error" => result.value # <<"TypeError">>

\* C7: a first response with neither tool calls nor response text is handed
\* to the summarizer and the query never returns the empty string.
C7_EmptyResponseFallsBack ==
    (pc = "Done" /\ ~response.raised /\ Calls = <<>>
       /\ ResultResponse(response) = <<>>)
        => /\ Len(summarizerCalls) = 1
           /\ result.kind = "answer"
           /\ result.value # <<>>

\* C8: a run moves AwaitingFirstResponse -> Done or AwaitingFirstResponse ->
\* ExecutingTools -> AwaitingSummary -> Done only; it makes one first provider
\* call; with tool calls present every executable one is invoked exactly
\* once, then the summarizer is called exactly once with the query and the
\* aggregated text, no tool runs after that call, and an answer returned is
\* the summarizer's output.
C8_Transitions ==
    {<<"Idle", "AwaitingFirstResponse">>,
     <<"AwaitingFirstResponse", "Done">>,
     <<"AwaitingFirstResponse", "ExecutingTools">>,
     <<"ExecutingTools", "ExecutingTools">>,
     <<"ExecutingTools", "AwaitingSummary">>,
     <<"AwaitingSummary", "Done">>}

C8_Count(ev) == Cardinality({k \in DOMAIN history : history[k].ev = ev})

C8_StateMachine ==
    /\ history = <<>> <=> pc = "Idle"
    /\ history # <<>> => history[Len(history)].to = pc
    /\ \A k \in DOMAIN history :
          <<IF k = 1 THEN "Idle" ELSE history[k - 1].to, history[k].to>>
              \in C8_Transitions
    /\ pc # "Idle" => C8_Count("provider_call") = 1 /\ providerCalls = 1
    /\ C8_Count("summarizer_call") = Len(summarizerCalls)
    /\ C8_Count("invoke") = Len(invokeLog)
    /\ \A k, m \in DOMAIN history :
          (history[k].ev = "summarizer_call" /\ k < m) =>
              history[m].ev \in {"chat", "rejected"}
    /\ Calls = <<>> => invokeLog = <<>> /\ summarizerCalls = <<>>
    /\ pc = "ExecutingTools" => Calls # <<>> /\ summarizerCalls = <<>>
    /\ LoopOver =>
          /\ Len(summarizerCalls) = 1
          /\ summarizerCalls[1].user_query = query
          /\ NamesIn(summarizerCalls[1].tool_output) = NamedNames(Calls)
          /\ \A j \in DOMAIN tool_outputs :
                Contains(summarizerCalls[1].tool_output, tool_outputs[j])
          /\ \A i \in DOMAIN Calls :
                Executable(Calls[i]) =>
                    Cardinality({k \in DOMAIN invokeLog : invokeLog[k].idx = i}) = 1
          /\ \A k \in DOMAIN invokeLog :
                /\ invokeLog[k].idx \in DOMAIN Calls
                /\ Executable(Calls[invokeLog[k].idx])
    /\ (pc = "Done" /\ Calls # <<>> /\ result.kind = "answer") =>
          ~summary.raised /\ summary.chat_called /\ result.value = summary.value

C8_Witness ==
    /\ pc = "Done"
    /\ provider = "cloudflare"
    /\ query = "What is the current price of AAPL?"
    /\ upstream.text = <<>>
    /\ Len(invokeLog) = 1
    /\ invokeLog[1].name = "getCurrentStockPrice"
    /\ invokeLog[1].arguments.keys = {"symbol", "action"}
    /\ chatCalls = 1
    /\ result = [kind |-> "answer", value |-> <<"AAPL trades at 190.">>]

\* C9: when the summarizer call fails, the query ends with that failure and
\* returns no answer string in its place.
C9_SummarizerFailurePropagates ==
    /\ (pc = "Done" /\ summary.raised) =>
          /\ result.kind = "error"
          /\ result.value = summary.error
    /\ (pc = "Done" /\ Len(summarizerCalls) = 1
          /\ (summarizerCalls[1].user_query = ""
                \/ summarizerCalls[1].tool_output = <<>>)) =>
          result.kind = "error"

C9_Witness ==
    /\ pc = "Done"
    /\ summary.raised
    /\ summary.error = <<"RequestException">>
    /\ chatCalls = 1
    /\ result.kind = "error"

\* C10: get_friendly_response with an empty user_query or an empty
\* tool_output fails with the validation error before any chat call and
\* returns no string.
C10_EmptyInputRejected ==
    (pc = "Done" /\ Len(summarizerCalls) = 1
       /\ (summarizerCalls[1].user_query = ""
             \/ summarizerCalls[1].tool_output = <<>>))
        => /\ summary.raised
           /\ summary.error = <<"ValueError">>
           /\ ~summary.chat_called
           /\ chatCalls = 0
           /\ summary.value = <<>>

C10_Witness ==
    /\ pc = "Done"
    /\ Len(summarizerCalls) = 1
    /\ summarizerCalls[1].user_query = ""
    /\ summarizerCalls[1].tool_output # <<>>
    /\ summary.raised
    /\ chatCalls = 0

C10_WitnessEmptyOutput ==
    /\ pc = "Done"
    /\ Len(summarizerCalls) = 1
    /\ summarizerCalls[1].user_query # ""
    /\ summarizerCalls[1].tool_output = <<>>
    /\ summary.raised

\* the first provider call of this run was answered
Answered == \E k \in DOMAIN history : history[k].ev = "provider_reply"

\* C11: called with a non-empty query and tool output, get_friendly_response
\* does not raise whatever chat handed back: a string reply is returned as
\* that text and a {result: {response: text}} reply as its inner text (both
\* without surrounding whitespace; an empty text counts as no text), and
\* any other reply as one of the fixed apologies.
C11_EveryReplyShapeHandled ==
    (pc = "Done" /\ summary.reply # NoReply) =>
        /\ ~summary.raised
        /\ result.kind = "answer"
        /\ (summary.reply.kind \in {"str", "dict_response"}
              /\ summary.reply.text # <<>>) =>
              result.value = Strip(summary.reply.text)
        /\ (summary.reply.kind \notin {"str", "dict_response"}
              \/ summary.reply.text = <<>>) =>
              result.value \in {Apology, ApologyFormat}

\* C12: when the first provider call fails, the run is over with that
\* failure as its outcome after one provider call: no second attempt, no
\* tool invoked, no segment collected, no summarizer or chat call.
C12_ProviderFailureEndsRun ==
    (\E k \in DOMAIN history : history[k].ev = "provider_failure") =>
        /\ pc = "Done"
        /\ result = [kind |-> "error", value |-> <<"RequestException">>]
        /\ providerCalls = 1
        /\ history = << [ev |-> "provider_call", to |-> "AwaitingFirstResponse"],
                        [ev |-> "provider_failure", to |-> "Done"] >>
        /\ invokeLog = <<>>
        /\ tool_outputs = <<>>
        /\ summarizerCalls = <<>>
        /\ chatCalls = 0

C12_Witness ==
    /\ pc = "Done"
    /\ Len(history) = 2
    /\ history[2].ev = "provider_failure"
    /\ providerCalls = 1
    /\ result.kind = "error"
    /\ query = "What is the current price of AAPL?"

\* C13: a query that is over has exactly one outcome, a non-empty answer
\* string or a non-empty error string, and a query that is not over has
\* none.
C13_ExactlyOneOutcome ==
    /\ pc = "Done" =>
          /\ result.kind \in {"answer", "error"}
          /\ result.value # <<>>
    /\ pc # "Done" => result.kind = "none"

\* C14: for every provider, an upstream reply with no text and exactly one
\* tool call, naming a registered tool and carrying its required arguments,
\* comes back in the normalized shape with exactly that tool call and an
\* empty response text, and process_query invokes the tool.
C14_SingleCallNormalized ==
    (/\ Answered
     /\ upstream.text = <<>>
     /\ Len(upstream.calls) = 1
     /\ Executable(upstream.calls[1])
     /\ ~upstream.calls[1].arguments.null)
        => /\ ~response.raised
           /\ response.has_result
           /\ response.tool_calls = upstream.calls
           /\ response.response = <<>>
           /\ pc \in {"AwaitingSummary", "Done"} => Invoked(1)

\* C15: what the adapter hands to process_query carries the upstream response
\* text unchanged and, for every tool call it keeps, the name and arguments of
\* an upstream tool call unchanged.
C15_FieldsPreserved ==
    (Answered /\ ~response.raised) =>
        /\ ResultResponse(response) = upstream.text
        /\ \A i \in DOMAIN Calls :
              \E j \in DOMAIN upstream.calls : Calls[i] = upstream.calls[j]

\* the credential attributes the claim ties to each provider
C16_Required(p) ==
    CASE p = "cloudflare" -> {"ACCOUNT_ID", "API_TOKEN"}
      [] p = "openai" -> {"OPENAI_API_KEY"}
      [] p = "gemini" -> {"GEMINI_API_KEY"}
      [] OTHER -> {}

C16_Misconfigured ==
    provider \notin {"cloudflare", "openai", "gemini"}
        \/ ~(C16_Required(provider) \subseteq config)

\* C16: once ToolManager(provider) has run with the provider's credential
\* missing or with an unknown provider name, construction has failed with an
\* error message, there is no registry, no provider or chat request was made
\* and no query was or will be processed.
C16_ConfigurationErrorFirst ==
    (pc # "Constructing" /\ C16_Misconfigured) =>
        /\ pc = "ConstructionFailed"
        /\ result.kind = "error"
        /\ result.value # <<>>
        /\ tool_mapping = <<>>
        /\ providerCalls = 0
        /\ chatCalls = 0
        /\ history = <<>>
        /\ first_schemas = <<>>

C16_Witness ==
    /\ pc = "ConstructionFailed"
    /\ provider = "cloudflare"
    /\ config = {"ACCOUNT_ID", "OPENAI_API_KEY", "GEMINI_API_KEY"}
    /\ result.value = <<"CLOUDFLARE_AUTH_TOKEN is required for Cloudflare provider">>

C16_WitnessUnknownName ==
    /\ pc = "ConstructionFailed"
    /\ provider = "mistral"
    /\ config = ConfigAttrs
    /\ result.kind = "error"

\* C17: the registry is the one load_tools built, whatever process_query,
\* call_tool and prepare_tools_schema have done since: same names, same tool
\* bound to each name.
C17_RegistryFixed ==
    /\ DOMAIN tool_mapping = Range(ToolOrder)
    /\ \A n \in DOMAIN tool_mapping : tool_mapping[n] = load_tools[n]

C17_Witness ==
    /\ pc = "Done"
    /\ Len(Calls) = 2
    /\ Calls[1].name = "bogusTool"
    /\ Len(invokeLog) = 1
    /\ invokeLog[1].outcome = "raise"
    /\ first_schemas # <<>>
    /\ tool_mapping[invokeLog[1].name] = load_tools[invokeLog[1].name]

\* C18: the compiled list has one entry per registered tool, and in every
\* entry each name of parameters.required is a key of parameters.properties.
C18_RequiredAreProperties ==
    /\ pc \notin {"Idle", "Constructing", "ConstructionFailed"} =>
          ToolNames(tool_schemas) = DOMAIN tool_mapping
    /\ \A i \in DOMAIN tool_schemas :
          LET parameters == tool_schemas[i].parameters
          IN  parameters.hasRequired =>
                  Range(parameters.required) \subseteq parameters.properties

C18_Witness ==
    /\ pc = "AwaitingFirstResponse"
    /\ Len(tool_schemas) = Len(ToolOrder)
    /\ \E i \in DOMAIN tool_schemas :
          /\ tool_schemas[i].name = "takeScreenshotOfWebPage"
          /\ tool_schemas[i].parameters.required = <<"url", "output_path">>
          /\ tool_schemas[i].parameters.properties
                = {"url", "output_path", "wait_time", "full_page"}

\* C19: the compiled entry of a tool whose own schema has no top-level
\* "required" has a "required" key, and its value is the empty list.
C19_RequiredDefaultsToEmpty ==
    \A i \in DOMAIN tool_schemas :
        ~tool_mapping[tool_schemas[i].name].hasRequired =>
            /\ tool_schemas[i].parameters.hasRequired
            /\ tool_schemas[i].parameters.required = <<>>

RawOutput(i) ==
    LET c == Calls[i]
        outcome == IF Invoked(i)
                   THEN (CHOOSE e \in Range(invokeLog) : e.idx = i).outcome
                   ELSE "dict"
    IN  call_tool(tool_mapping, c.name, c.arguments, outcome).output

\* the segment the claim asks for: the tool name, then the output, a dict
\* JSON-encoded and a string as it is
ExpectedSegment(i) ==
    LET raw == RawOutput(i)
    IN  <<"Tool ", Calls[i].name, " output:\n">>
        \o (IF raw.kind = "dict"
            THEN <<"{\"", raw.key, "\": \"">> \o raw.text \o <<"\"}">>
            ELSE raw.text)

\* the segments of the named calls among the first n, in call order
RECURSIVE ExpectedSegments(_)
ExpectedSegments(n) ==
    IF n = 0 THEN <<>>
    ELSE ExpectedSegments(n - 1)
         \o (IF Calls[n].name # "" THEN <<ExpectedSegment(n)>> ELSE <<>>)

Mentions(text, phrase) == \E i \in DOMAIN text : text[i] = phrase

\* the request failed, or the reply had neither tool calls nor a response
LegacyUnprocessable ==
    \/ legacy_reply.kind \in {"ConnectionError", "HTTPError"}
    \/ /\ legacy_reply.kind = "json"
       /\ legacy_reply.tool_calls = <<>>
       /\ legacy_reply.response = <<>>

\* C22: the legacy process_query hands back a string for every query and
\* never raises, and when the query could not be processed (failed request,
\* or neither tool calls nor a response) that string contains
\* "Unable to process".
C22_LegacyUnableToProcess ==
    legacy_result # NoResult =>
        /\ legacy_result.kind = "answer"
        /\ LegacyUnprocessable =>
              Mentions(legacy_result.value, "Unable to process")

\* the function_call parts and the text parts of the Gemini reply, in order
GeminiCallParts ==
    Filter(gemini_reply.parts, [p \in GeminiParts |-> p.kind = "function_call"])

GeminiTextParts ==
    Filter(gemini_reply.parts, [p \in GeminiParts |-> p.kind = "text"])

\* the texts of the parts with one blank between neighbours
RECURSIVE SpaceJoined(_)
SpaceJoined(parts) ==
    IF parts = <<>> THEN <<>>
    ELSE IF Len(parts) = 1 THEN parts[1].text
    ELSE parts[1].text \o <<" ">> \o SpaceJoined(Tail(parts))

\* C23: whatever the argument containers of a Gemini reply are,
\* get_tool_call_response returns normally with one tool call per
\* function_call part, in order and under the part's name; its arguments are
\* a plain dict: the part's own keys when the container is a dict or can be
\* coerced to one, no keys when there is no container or the coercion
\* fails; and the response is the text of all the text parts.
C23_CoercionContained ==
    gemini_reply.kind = "parts" =>
        /\ ~gemini_response.raised
        /\ Len(gemini_response.tool_calls) = Len(GeminiCallParts)
        /\ \A i \in DOMAIN GeminiCallParts :
              LET part == GeminiCallParts[i]
                  call == gemini_response.tool_calls[i]
              IN  /\ call.name = part.name
                  /\ call.arguments.container = "dict"
                  /\ call.arguments.keys =
                        IF part.args.container \in {"dict", "MapComposite"}
                        THEN part.args.keys
                        ELSE {}
        /\ gemini_response.response = SpaceJoined(GeminiTextParts)

C23_Witness ==
    /\ gemini_calls = 1
    /\ Len(gemini_reply.parts) = 3
    /\ gemini_reply.parts[1].args.container = "opaque"
    /\ gemini_reply.parts[2].kind = "text"
    /\ gemini_reply.parts[3].args.container = "MapComposite"
    /\ ~gemini_response.raised
    /\ gemini_response.response = <<"Hi there!">>
    /\ gemini_response.tool_calls =
          <<[name |-> gemini_reply.parts[1].name, arguments |-> PlainDict({})],
            [name |-> gemini_reply.parts[3].name,
             arguments |-> PlainDict({"symbol", "action"})]>>

\* a JSON-schema type token and its upper-case spelling
TypeCasing ==
    { <<"object", "OBJECT">>, <<"string", "STRING">>, <<"array", "ARRAY">>,
      <<"boolean", "BOOLEAN">>, <<"integer", "INTEGER">>,
      <<"number", "NUMBER">> }

\* key is in both dicts with the same value, or in neither
SameUnder(key, src, out) ==
    /\ HasKey(out, key) <=> HasKey(src, key)
    /\ HasKey(src, key) => out[key] = src[key]

\* out is what the claim asks of the conversion of src: the type token
\* upper-cased, required, description and enum as they were, and the same
\* again for every property and for the items of an array
RECURSIVE ConvertedFrom(_, _)
ConvertedFrom(src, out) ==
    /\ HasKey(out, "type") <=> HasKey(src, "type")
    /\ HasKey(src, "type") => <<src.type, out.type>> \in TypeCasing
    /\ SameUnder("required", src, out)
    /\ SameUnder("description", src, out)
    /\ SameUnder("enum", src, out)
    /\ HasKey(out, "properties") <=> HasKey(src, "properties")
    /\ HasKey(src, "properties") =>
          /\ DOMAIN out.properties = DOMAIN src.properties
          /\ \A p \in DOMAIN src.properties :
                ConvertedFrom(src.properties[p], out.properties[p])
    /\ (HasKey(src, "items") /\ HasKey(src, "type") /\ src.type = "array") =>
          /\ HasKey(out, "items")
          /\ ConvertedFrom(src.items, out.items)

\* C29: building the Gemini function declarations leaves the tools list it
\* was given as it was, and each declaration's parameters are the tool's
\* schema with the type token upper-cased at every level reached through
\* properties and array items, and required, description and enum unchanged.
C29_SchemaConverted ==
    gemini_calls = 1 =>
        /\ gemini_tools = gemini_passed
        /\ Len(gemini_declarations) = Len(gemini_passed)
        /\ \A i \in DOMAIN gemini_passed :
              /\ gemini_declarations[i].name = gemini_passed[i].name
              /\ ConvertedFrom(gemini_passed[i].parameters,
                               gemini_declarations[i].parameters)

C29_Witness ==
    /\ gemini_calls = 1
    /\ Len(gemini_passed) = 1
    /\ gemini_passed[1].parameters = CommandListParameters
    /\ gemini_tools[1].parameters.properties.commands.items.type = "string"
    /\ gemini_declarations[1].parameters =
          [type |-> "OBJECT",
           properties |->
              [commands |->
                  [type |-> "ARRAY", items |-> [type |-> "STRING"],
                   description |-> "List of shell commands to execute"]],
           required |-> <<"commands">>]

\* the step of the run that handled tool call i (after the provider call
\* and its reply)
LoopStep(i) == history[2 + i]

\* C24: a tool call entry without a name is passed over: no invoke, no
\* segment, the loop goes on. When a non-empty tool_calls list has only such
\* entries the summarizer is still called, with an empty tool_output, and
\* the query fails with the summarizer's validation error before any chat
\* call: the response text is not returned.
C24_UnnamedCallsSkipped ==
    /\ pc \in {"ExecutingTools", "AwaitingSummary", "Done"} =>
          \A i \in 1..(idx - 1) :
             Calls[i].name = "" =>
                /\ LoopStep(i).ev = "skip"
                /\ ~Invoked(i)
                /\ SegIndex(Calls, i) = SegIndex(Calls, i - 1)
    /\ pc \in {"ExecutingTools", "AwaitingSummary", "Done"} =>
          Len(tool_outputs) = SegIndex(Calls, idx - 1)
    /\ (pc = "Done" /\ Calls # <<>> /\ NamedNames(Calls) = <<>>) =>
          /\ invokeLog = <<>>
          /\ Len(summarizerCalls) = 1
          /\ summarizerCalls[1].tool_output = <<>>
          /\ chatCalls = 0
          /\ result = Failure(<<"ValueError">>)

C24_Witness ==
    /\ pc = "Done"
    /\ query # ""
    /\ Len(Calls) = 2
    /\ NamedNames(Calls) = <<>>
    /\ upstream.text # <<>>
    /\ [k \in DOMAIN history |-> history[k].ev]
          = <<"provider_call", "provider_reply", "skip", "skip",
              "summarizer_call", "rejected">>
    /\ result = Failure(<<"ValueError">>)

\* C26: with the Cloudflare adapter every tool call that reaches the loop
\* names a registered tool and has that tool's required arguments, every
\* call the loop has handled entered the tool's invoke, and no segment
\* reports a tool as not found or an argument as missing.
C26_CloudflareCallsExecutable ==
    provider = "cloudflare" =>
        /\ \A i \in DOMAIN Calls :
              /\ Calls[i].name # ""
              /\ Executable(Calls[i])
        /\ pc \in {"ExecutingTools", "AwaitingSummary", "Done"} =>
              \A i \in 1..(idx - 1) : Invoked(i)
        /\ \A j \in DOMAIN tool_outputs :
              /\ "' not found" \notin Range(tool_outputs[j])
              /\ "Missing required arguments: " \notin Range(tool_outputs[j])

C26_Witness ==
    /\ provider = "cloudflare"
    /\ pc = "Done"
    /\ Len(upstream.calls) = 2
    /\ upstream.calls[1].name = "getCurrentStockPrice"
    /\ upstream.calls[1].arguments = Args({"symbol"})
    /\ upstream.calls[2].name = "getCurrentStockPrice"
    /\ upstream.calls[2].arguments = Args({"symbol", "action"})
    /\ Calls = <<upstream.calls[2]>>
    /\ Len(invokeLog) = 1
    /\ Len(tool_outputs) = 1

\* call_tool cannot hand back the tool's result for this input: the name is
\* not registered, a required argument is not there (with arguments = None
\* none is), or invoke raises
CannotExecute(tool_name, arguments, outcome) ==
    \/ tool_name \notin DOMAIN tool_mapping
    \/ /\ tool_name \in DOMAIN tool_mapping
       /\ \E a \in Range(GetRequired(tool_mapping[tool_name])) :
             arguments.null \/ a \notin arguments.keys
    \/ outcome = "raise"

C27_FriendlyNeverEmpty ==
    (pc = "Done" /\ Len(summarizerCalls) = 1 /\ ~summary.raised) =>
        /\ summary.value # <<>>
        /\ result.kind = "answer"
        /\ result.value # <<>>

CloudflareCredentials == {"ACCOUNT_ID", "API_TOKEN"}

\* the key of the selected provider itself
OwnCredential(p) ==
    IF p = "openai" THEN "OPENAI_API_KEY" ELSE "GEMINI_API_KEY"

\* C28: a ToolManager for "openai" or "gemini" exists only if the Cloudflare
\* account id and auth token are configured next to the provider's own key;
\* with the own key but without one of the two, construction has failed
\* with the configuration error naming the missing Cloudflare variable.
C28_CloudflareAlwaysNeeded ==
    provider \in {"openai", "gemini"} =>
        /\ pc \notin {"Constructing", "ConstructionFailed"} =>
              /\ OwnCredential(provider) \in config
              /\ CloudflareCredentials \subseteq config
        /\ (pc # "Constructing"
              /\ OwnCredential(provider) \in config
              /\ ~(CloudflareCredentials \subseteq config)) =>
              /\ pc = "ConstructionFailed"
              /\ tool_mapping = <<>>
              /\ result.kind = "error"
              /\ result.value =
                    IF "ACCOUNT_ID" \notin config
                    THEN <<"CLOUDFLARE_ACCOUNT_ID is required for Cloudflare provider">>
                    ELSE <<"CLOUDFLARE_AUTH_TOKEN is required for Cloudflare provider">>

C28_Witness ==
    /\ pc = "ConstructionFailed"
    /\ provider = "gemini"
    /\ config = {"GEMINI_API_KEY"}
    /\ result = Failure(<<"CLOUDFLARE_ACCOUNT_ID is required for Cloudflare provider">>)

C28_WitnessConstructed ==
    /\ pc = "Done"
    /\ provider = "openai"
    /\ config = {"ACCOUNT_ID", "API_TOKEN", "OPENAI_API_KEY"}

\* the main thread's last call was stop() and it has returned
StopReturned ==
    /\ main_pc = "ready"
    /\ loader_calls # <<>>
    /\ loader_calls[Len(loader_calls)] = "stop"

\* C30: once stop() has returned, every animation thread the loader started
\* has ended, and what was written last is not an animation frame.
C30_NoAnimationAfterStop ==
    StopReturned =>
        /\ \A t \in DOMAIN threads : threads[t] = "done"
        /\ stdout_last # "frame"
====
